---- MODULE Spec2Model ----
(***************************************************************************)
(* The Boost.Python example module of "test cases/frameworks/1 boost":     *)
(* struct World (one std::string field, three methods) and the table that  *)
(* BOOST_PYTHON_MODULE registers for it.                                   *)
(*                                                                         *)
(* A std::string is modelled as the sequence of its bytes (0..255); a      *)
(* byte is a number, so '0' is 48 and '.' is 46.  Every call reaches the   *)
(* holder through the registered table, one call at a time.                *)
(***************************************************************************)
EXTENDS Integers, Sequences, FiniteSets

VARIABLES
    msg,      \* msg[h]: the field World::msg of holder h
    major,    \* PY_MAJOR_VERSION of the build
    minor,    \* PY_MINOR_VERSION of the build
    last,     \* observation: the most recent call and what it returned
    written,  \* history: written[h] = <<t>>, t the argument of the latest set on h; <<>> if none
    vers,     \* history: every string a version call has returned so far
    budget,   \* budget[c]: calls caller c has still to make (concurrent callers)
    given     \* history: the arguments of the set calls the concurrent callers made

vars == <<msg, major, minor, last, written, vers, budget, given>>

----------------------------------------------------------------------------
(* Bounds of the model *)

NumHolders == 2
MaxLen == 1
MaxMajor == 3
MaxMinor == 11
NumCallers == 2
MaxCalls == 2

Holders == 1..NumHolders
Callers == 1..NumCallers

\* The characters the texts are made of, each as its UTF-8 bytes:
\* "h" (one byte) and U+00E9 (two bytes).
Chars == {<<104>>, <<195, 169>>}

RECURSIVE StringsOfLen(_)
StringsOfLen(n) ==
    IF n = 0 THEN {<<>>}
    ELSE {s \o c : s \in StringsOfLen(n - 1), c \in Chars}

RECURSIVE StringsUpTo(_)
StringsUpTo(n) ==
    IF n = 0 THEN StringsOfLen(0)
    ELSE StringsUpTo(n - 1) \cup StringsOfLen(n)

\* The arguments set is called with: up to MaxLen characters.
Text == StringsUpTo(MaxLen)

\* What set is called with where the build is varied.
BuildTexts == {<<>>, <<195, 169>>}

\* What the concurrent callers pass to set.
CallerTexts == {<<>>, <<104>>, <<195, 169>>}

\* The builds the holders are exercised under: Python 2.7 and 3.12.
Builds == {<<2, 7>>, <<3, 12>>}

\* The holder the concurrent callers share.
TheHolder == CHOOSE h \in Holders : TRUE

----------------------------------------------------------------------------
(* struct World *)

\* Mutant: the field starts with whatever the storage held.
StaleString == <<104>>

\* std::string msg, default-constructed.
EmptyString == <<>>

Char0 == 48
CharDot == 46
CharMinus == 45
Ten == 10

\* The digits of n >= 0, most significant first ("%d").
RECURSIVE Digits(_)
Digits(n) ==
    IF n < Ten THEN <<Char0 + n>>
    ELSE Append(Digits(n \div Ten), Char0 + (n % Ten))

\* Mutant: a digit loop that runs while n > 0 and so prints nothing for 0.
to_string_noZero(n) == IF n = 0 THEN <<>> ELSE Digits(n)

\* std::to_string(int)
to_string(n) == IF n < 0 THEN <<CharMinus>> \o Digits(0 - n) ELSE Digits(n)

\* A method takes the holder's field m (and its argument) and yields the
\* field afterwards and the value returned: <<>> for void, <<s>> for string s.

\* Mutant: "msg = msg", the parameter assigned to itself, the field untouched.
World_set_shadowed(m, t) == [msg |-> m, ret |-> <<>>]

\* Mutant: "this->msg += msg".
World_set_append(m, t) == [msg |-> m \o t, ret |-> <<>>]

\* Mutant: "if (!msg.empty()) this->msg = msg".
World_set_ignoreEmpty(m, t) == [msg |-> IF t = <<>> THEN m ELSE t, ret |-> <<>>]

\* void set(std::string msg) { this->msg = msg; }
World_set(m, t) == [msg |-> t, ret |-> <<>>]

\* Mutant: "return msg.substr(0, 1)", one byte taken for one character.
World_greet_firstByte(m) ==
    [msg |-> m, ret |-> <<IF m = <<>> THEN <<>> ELSE <<m[1]>>>>]

\* Mutant: "return std::move(msg)", which leaves the field empty.
World_greet_moved(m) == [msg |-> <<>>, ret |-> <<m>>]

\* std::string greet() { return msg; }
World_greet(m) == [msg |-> m, ret |-> <<m>>]

\* Mutant: the string is built in the field: "msg = ...; return msg".
World_version_inField(m) ==
    LET v == to_string(major) \o <<CharDot>> \o to_string(minor)
    IN  [msg |-> v, ret |-> <<v>>]

\* std::string version() { return to_string(MAJOR) + "." + to_string(MINOR); }
World_version(m) ==
    [msg |-> m, ret |-> <<to_string(major) \o <<CharDot>> \o to_string(minor)>>]

\* Mutant: "static std::string msg", one field for every holder.
StoreShared(h, v) == [x \in Holders |-> v]

\* The field msg is a non-static member: each holder has its own.
Store(h, v) == [msg EXCEPT ![h] = v]

----------------------------------------------------------------------------
(* BOOST_PYTHON_MODULE(MOD_NAME) *)

ClassName == "World"

\* Mutant: two .def lines with their methods exchanged.
RegistrySwapped ==
    [greet   |-> "World::version",
     set     |-> "World::set",
     version |-> "World::greet"]

\* .def(name, method)
Registry ==
    [greet   |-> "World::greet",
     set     |-> "World::set",
     version |-> "World::version"]

\* The bound method, applied to a holder's field.
Apply(method, m, t) ==
    CASE method = "World::set"     -> World_set(m, t)
      [] method = "World::greet"   -> World_greet(m)
      [] method = "World::version" -> World_version(m)

\* One call of the exposed name on holder h; args is <<t>> for set(t), <<>> otherwise.
Call(name, h, args) ==
    LET r == Apply(Registry[name], msg[h], IF args = <<>> THEN <<>> ELSE args[1])
    IN  /\ msg' = Store(h, r.msg)
        /\ last' = [op   |-> name,
                    h    |-> h,
                    arg  |-> args,
                    ret  |-> r.ret,
                    prev |-> IF last.h = h THEN last.op ELSE "none"]
        /\ written' = IF name = "set" THEN [written EXCEPT ![h] = args] ELSE written
        /\ vers' = IF name = "version" THEN vers \cup {r.ret} ELSE vers
        /\ UNCHANGED <<major, minor>>

Set(h, t) == Call("set", h, <<t>>)

Greet(h) == Call("greet", h, <<>>)

Version(h) == Call("version", h, <<>>)

----------------------------------------------------------------------------
(* Specifications *)

NoCall == [op |-> "none", h |-> 0, arg |-> <<>>, ret |-> <<>>, prev |-> "none"]

InitHolders ==
    /\ msg = [h \in Holders |-> EmptyString]
    /\ last = NoCall
    /\ written = [h \in Holders |-> <<>>]
    /\ vers = {}
    /\ given = {}

\* The interpreter calls an exposed name on a holder; no caller is counted.
PySet(h, t) == Set(h, t) /\ UNCHANGED <<budget, given>>

PyGreet(h) == Greet(h) /\ UNCHANGED <<budget, given>>

PyVersion(h) == Version(h) /\ UNCHANGED <<budget, given>>

\* Holders called in any order with any text.
Init ==
    /\ InitHolders
    /\ \E b \in Builds : major = b[1] /\ minor = b[2]
    /\ budget = [c \in Callers |-> 0]

Next ==
    \/ \E h \in Holders, t \in Text : PySet(h, t)
    \/ \E h \in Holders : PyGreet(h)
    \/ \E h \in Holders : PyVersion(h)

Spec == Init /\ [][Next]_vars

\* Every build with major up to MaxMajor and minor up to MaxMinor.
InitBuild ==
    /\ InitHolders
    /\ major \in 0..MaxMajor
    /\ minor \in 0..MaxMinor
    /\ budget = [c \in Callers |-> 0]

NextBuild ==
    \/ \E h \in Holders, t \in BuildTexts : PySet(h, t)
    \/ \E h \in Holders : PyGreet(h)
    \/ \E h \in Holders : PyVersion(h)

SpecBuild == InitBuild /\ [][NextBuild]_vars

\* Several callers on one holder, each call atomic, each caller making MaxCalls calls.
InitCallers ==
    /\ InitHolders
    /\ \E b \in Builds : major = b[1] /\ minor = b[2]
    /\ budget = [c \in Callers |-> MaxCalls]

CallerSet(c, t) ==
    /\ budget[c] > 0
    /\ Set(TheHolder, t)
    /\ given' = given \cup {t}
    /\ budget' = [budget EXCEPT ![c] = @ - 1]

CallerGreet(c) ==
    /\ budget[c] > 0
    /\ Greet(TheHolder)
    /\ given' = given
    /\ budget' = [budget EXCEPT ![c] = @ - 1]

NextCallers ==
    \/ \E c \in Callers, t \in CallerTexts : CallerSet(c, t)
    \/ \E c \in Callers : CallerGreet(c)

SpecCallers == InitCallers /\ [][NextCallers]_vars

AllDone == \A c \in Callers : budget[c] = 0

----------------------------------------------------------------------------
(* Properties *)

\* The argument of the latest set on holder h, the empty text if there was none.
LastSet(h) == IF written[h] = <<>> THEN <<>> ELSE written[h][1]

\* C1: in every reachable state every holder's text is the argument of the
\* most recent set on that holder, or empty if set was never called on it.
C1_LastWriteWins == \A h \in Holders : msg[h] = LastSet(h)

\* A second set on a holder, after a version call somewhere, left U+00E9 in it.
C1_Witness ==
    /\ last.op = "set"
    /\ last.prev = "set"
    /\ last.arg = << <<195, 169>> >>
    /\ msg[last.h] = <<195, 169>>
    /\ vers # {}

\* C2: set(t) immediately followed by greet() on the same holder returns
\* exactly t, whatever the holder held before.
C2_SetThenGreet ==
    [][(last.op = "set" /\ last'.op = "greet" /\ last'.h = last.h)
           => last'.ret = last.arg]_vars

\* greet right after set of the two-byte U+00E9 returned both bytes.
C2_Witness ==
    /\ last.op = "greet"
    /\ last.prev = "set"
    /\ written[last.h] = << <<195, 169>> >>
    /\ last.ret = << <<195, 169>> >>

\* C3: greet on a holder on which set was never called returns the empty
\* text, whatever version calls came before.
C3_FreshGreetEmpty ==
    (last.op = "greet" /\ written[last.h] = <<>>) => last.ret = << <<>> >>

\* greet on a never-set holder, right after a version call on it, while
\* another holder holds a text.
C3_Witness ==
    /\ last.op = "greet"
    /\ last.prev = "version"
    /\ written[last.h] = <<>>
    /\ vers # {}
    /\ \E h \in Holders : msg[h] # <<>>

\* C4: greet changes no holder's text, and a greet right after a greet on
\* the same holder returns the same value.
C4_GreetReadOnly ==
    [][last'.op = "greet" =>
           /\ msg' = msg
           /\ (last.op = "greet" /\ last.h = last'.h) => last'.ret = last.ret]_vars

\* Two greets in a row on a holder that holds U+00E9.
C4_Witness ==
    /\ last.op = "greet"
    /\ last.prev = "greet"
    /\ last.ret = << <<195, 169>> >>
    /\ msg[last.h] = <<195, 169>>

\* C5: a call on one holder leaves every other holder's text as it was, and
\* greet on a holder returns what was last set on that holder (empty if
\* nothing was).
C5_NoAliasing ==
    [][/\ \A h \in Holders : h # last'.h => msg'[h] = msg[h]
       /\ last'.op = "greet" =>
              last'.ret = <<IF written'[last'.h] = <<>> THEN <<>>
                            ELSE written'[last'.h][1]>>]_vars

\* Two holders hold different texts; greet on one, after a call on the
\* other, returned its own.
C5_Witness ==
    \E h1, h2 \in Holders :
        /\ h1 # h2
        /\ msg[h1] = <<104>>
        /\ msg[h2] = <<195, 169>>
        /\ last.op = "greet"
        /\ last.h = h2
        /\ last.prev = "none"
        /\ last.ret = << <<195, 169>> >>

\* C6: for a fixed build every version call returns the same string, on
\* every holder and in every state, and changes no holder's text.
C6_VersionConstant ==
    [][last'.op = "version" => (msg' = msg /\ vers' = {last'.ret})]_vars

\* version called again, on a holder that holds a text, another holder empty.
C6_Witness ==
    /\ last.op = "version"
    /\ last.prev = "version"
    /\ msg[last.h] # <<>>
    /\ \E h \in Holders : msg[h] = <<>>
    /\ Cardinality(vers) = 1

\* The value of a sequence of decimal digits.
RECURSIVE DecimalValue(_)
DecimalValue(s) ==
    IF s = <<>> THEN 0
    ELSE 10 * DecimalValue(SubSeq(s, 1, Len(s) - 1)) + (s[Len(s)] - 48)

\* s is the decimal rendering of n: digits only, at least one, no leading
\* zero, of value n.
IsDecimalOf(s, n) ==
    /\ Len(s) >= 1
    /\ \A i \in 1..Len(s) : s[i] \in 48..57
    /\ Len(s) > 1 => s[1] # 48
    /\ DecimalValue(s) = n

DotsIn(s) == {i \in 1..Len(s) : s[i] = 46}

\* C7: version returns the decimal rendering of major, one '.', and the
\* decimal rendering of minor, and nothing else.
C7_VersionFormat ==
    last.op = "version" =>
        LET s == last.ret[1]
        IN  /\ Cardinality(DotsIn(s)) = 1
            /\ LET p == CHOOSE i \in DotsIn(s) : TRUE
               IN  /\ IsDecimalOf(SubSeq(s, 1, p - 1), major)
                   /\ IsDecimalOf(SubSeq(s, p + 1, Len(s)), minor)

\* version returned "0.10": a zero and a two-digit number.
C7_Witness ==
    /\ last.op = "version"
    /\ major = 0
    /\ minor = 10
    /\ last.ret = << <<48, 46, 49, 48>> >>

\* C8: set can be called with every text in every state, returns nothing,
\* and changes only the text of the holder it is called on; greet right
\* after set("") returns the empty text.
C8_SetTotal ==
    /\ [](\A h \in Holders, t \in Text : ENABLED PySet(h, t))
    /\ [][last'.op = "set" =>
              /\ msg' = [msg EXCEPT ![last'.h] = last'.arg[1]]
              /\ last'.ret = <<>>
              /\ UNCHANGED <<major, minor>>]_vars
    /\ [][(last.op = "set" /\ last.arg = << <<>> >>
              /\ last'.op = "greet" /\ last'.h = last.h)
           => last'.ret = << <<>> >>]_vars

\* greet right after set("") returned the empty text while another holder
\* kept its own.
C8_Witness ==
    /\ last.op = "greet"
    /\ last.prev = "set"
    /\ written[last.h] = << <<>> >>
    /\ last.ret = << <<>> >>
    /\ \E h \in Holders : h # last.h /\ msg[h] = <<195, 169>>

\* C9: the table exposes the type "World" with exactly the names greet, set
\* and version, and a call of an exposed name returns and does what the
\* method of that name returns and does.
C9_RegistryBindsByName ==
    /\ [](ClassName = "World" /\ DOMAIN Registry = {"greet", "set", "version"})
    /\ [][last'.op \in {"greet", "set", "version"} =>
              LET h == last'.h
                  direct ==
                      CASE last'.op = "greet"   -> World_greet(msg[h])
                        [] last'.op = "set"     -> World_set(msg[h], last'.arg[1])
                        [] last'.op = "version" -> World_version(msg[h])
              IN  /\ msg' = [msg EXCEPT ![h] = direct.msg]
                  /\ last'.ret = direct.ret]_vars

\* version called right after greet on a holder that set was called on.
C9_Witness ==
    /\ last.op = "version"
    /\ last.prev = "greet"
    /\ written[last.h] = << <<195, 169>> >>
    /\ last.ret \in vers

\* C10: with several callers on one holder and every call atomic, each greet
\* returns the empty text or the argument of a set call made before it, and
\* once every caller has finished the text is the argument of the last set.
C10_AtomicCallers ==
    /\ last.op = "greet" => last.ret[1] \in given \cup {<<>>}
    /\ AllDone => msg[TheHolder] = LastSet(TheHolder)

\* Every caller has finished, two different texts were set, and the final
\* greet returned one of them.
C10_Witness ==
    /\ AllDone
    /\ last.op = "greet"
    /\ Cardinality(given) >= 2
    /\ last.ret[1] # <<>>
    /\ msg[TheHolder] = last.ret[1]

====
